---- MODULE Spec2Model ----
(***************************************************************************)
(* Excel data consolidator (excel_consolidator.py, gui.py,                 *)
(* test_consolidator.py).                                                  *)
(*                                                                         *)
(* A string is a sequence of character codes, so that str.strip, str.lower,*)
(* str.endswith, str.startswith, Path.relative_to and sorted() are computed *)
(* on characters.  A spreadsheet is the DataFrame pd.read_excel returns for *)
(* it with header=None, usecols=[0, 1], dtype=str: a sequence of rows, each *)
(* a pair of cells, a cell being a string or NaN.                          *)
(***************************************************************************)
EXTENDS Integers, Naturals, Sequences, FiniteSets, TLC

VARIABLES
    root_kind,    \* what data_path names: "dir", "file" or "missing";
                  \* "unset" when an entry of the window is left empty
    dir,          \* the tree under data_path: root-relative path -> content
    walk,         \* os.walk's traversal order of the files of dir
    output_file,  \* where the front-end asks the table to be written
    all_keys,     \* ExcelConsolidator.all_keys
    file_data,    \* ExcelConsolidator.file_data: relative path -> {key: value}
    file_names,   \* the insertion order of the dict file_data
    file_order,   \* ExcelConsolidator.file_order: relative path -> [key, ...]
    pc,           \* position of the running front-end / consolidate call
    flow,         \* the front-end in use: "script" or "gui"
    excel_files,  \* the local excel_files of the loop being run
    idx,          \* number of files of excel_files already read by that loop
    result,       \* what consolidate returned: "none", "True" or "False"
    data_rows,    \* the table consolidate assembled (header row first)
    saved,        \* _save_excel in this run: "no", "ok" or "failed"
    escaped,      \* an exception left consolidate
    summary,      \* the dict the last get_summary call returned, not yet used
    btn,          \* state of consolidate_btn: "normal" or "disabled"
    run,          \* number of runs started
    prev_rows,    \* the table the previous run handed to _save_excel
    finishing     \* workers that returned early and have their finally
                  \* clause (gui.py line 417) still to run

env_vars == <<root_kind, dir, walk, output_file>>
engine_vars == <<all_keys, file_data, file_names, file_order>>
call_vars == <<pc, flow, excel_files, idx, result, data_rows, saved, escaped,
               summary, btn, run, prev_rows, finishing>>
vars == <<root_kind, dir, walk, output_file, all_keys, file_data, file_names,
          file_order, pc, flow, excel_files, idx, result, data_rows, saved,
          escaped, summary, btn, run, prev_rows, finishing>>

----------------------------------------------------------------------------
(* Bounds of the model.                                                    *)

\* rows of a source spreadsheet
MaxRows == 2
\* front-end runs in succession over the same root
MaxRuns == 2

----------------------------------------------------------------------------
(* Strings.                                                                *)

\* the marker of a missing cell (pd.isna); no string holds character 0
NaN == <<0>>
\* the empty string
Empty == <<>>

\* "Source File"
SourceFile == <<83, 111, 117, 114, 99, 101, 32, 70, 105, 108, 101>>
\* the root directory, "/d"
Root == <<47, 100>>
\* the path separator "/"
Sep == <<47>>
\* "a.xlsx"
FileA == <<97, 46, 120, 108, 115, 120>>
\* "s/B.XLSM": in a subfolder, upper-case name and suffix
FileB == <<115, 47, 66, 46, 88, 76, 83, 77>>
\* "~$a.xlsx": the lock file Excel keeps beside an open a.xlsx
LockFile == <<126, 36, 97, 46, 120, 108, 115, 120>>
\* "n.txt"
TextFile == <<110, 46, 116, 120, 116>>
\* "consolidated_data.xlsx"
DefaultName == <<99, 111, 110, 115, 111, 108, 105, 100, 97, 116, 101, 100, 95,
                 100, 97, 116, 97, 46, 120, 108, 115, 120>>
\* the suffixes _scan_files accepts: ".xlsx", ".xls", ".xlsm"
Suffixes == {<<46, 120, 108, 115, 120>>, <<46, 120, 108, 115>>,
             <<46, 120, 108, 115, 109>>}
\* "~$"
LockPrefix == <<126, 36>>
\* the characters str.strip() removes: tab, LF, VT, FF, CR, space
Whitespace == {9, 10, 11, 12, 13, 32}

\* str.lower() on one character (ASCII)
LowerChar(c) == IF c >= 65 /\ c <= 90 THEN c + 32 ELSE c
\* str.lower()
Lower(s) == [i \in 1..Len(s) |-> LowerChar(s[i])]
\* str.startswith(p)
StartsWith(s, p) == Len(p) <= Len(s) /\ SubSeq(s, 1, Len(p)) = p
\* str.endswith(p)
EndsWith(s, p) ==
    Len(p) <= Len(s) /\ SubSeq(s, Len(s) - Len(p) + 1, Len(s)) = p

\* str.strip(): drop leading and trailing whitespace
Strip(s) ==
    LET keep == {i \in 1..Len(s) : s[i] \notin Whitespace}
    IN  IF keep = {} THEN Empty
        ELSE LET lo == CHOOSE i \in keep : \A j \in keep : i <= j
                 hi == CHOOSE i \in keep : \A j \in keep : j <= i
             IN  SubSeq(s, lo, hi)

\* Python's str < str: by code point, a proper prefix first
StrLess(a, b) ==
    \E i \in 1..(Len(b)) :
        /\ i <= Len(a) + 1
        /\ \A j \in 1..(i - 1) : a[j] = b[j]
        /\ (i = Len(a) + 1 \/ a[i] < b[i])

\* the file name of a path: what os.walk lists in `files`
Basename(p) ==
    LET seps == {i \in 1..Len(p) : p[i] = Sep[1]}
    IN  IF seps = {} THEN p
        ELSE SubSeq(p, (CHOOSE i \in seps : \A j \in seps : j <= i) + 1, Len(p))

\* Path(root) / file: the absolute location of a file of the tree
FullPath(rel) == Root \o Sep \o rel

----------------------------------------------------------------------------
(* The directory tree and the spreadsheets in it.                          *)

\* the rows a source spreadsheet is made of: <<cell of column A, cell of
\* column B>>.  " a " and "a" are one key after strip(); "B" sorts before
\* "a" by code point; one row has no key, one has no value
RowPool == {
    << <<32, 97, 32>>, <<49>> >>,
    << <<97>>, <<50>> >>,
    << <<66>>, NaN >>,
    << NaN, <<50>> >> }

SeqsUpTo(S, n) == UNION {[1..k -> S] : k \in 0..n}

\* what a file of the tree holds: a readable first sheet, a spreadsheet
\* pd.read_excel cannot read, or something that is no spreadsheet
Sheet(rows) == [kind |-> "sheet", rows |-> rows]
Corrupt == [kind |-> "corrupt", rows |-> <<>>]
Other == [kind |-> "other", rows |-> <<>>]
Contents == {Sheet(r) : r \in SeqsUpTo(RowPool, MaxRows)} \cup {Corrupt}
\* a row whose key cell holds only blanks
BlankKeyRow == << <<32, 32>>, <<49>> >>
\* a row whose key cell holds the text "Source File"
SourceFileRow == <<SourceFile, <<49>>>>
\* the second spreadsheet of a tree is a short one: no row or one row
ShortContents ==
    {Sheet(<<>>), Corrupt}
    \cup {Sheet(<<r>>) : r \in RowPool \cup {BlankKeyRow, SourceFileRow}}

Range(s) == {s[i] : i \in 1..Len(s)}

\* dict.get(k, default)
Get(d, k, default) == IF k \in DOMAIN d THEN d[k] ELSE default

\* the empty dict
EmptyDict == [k \in {} |-> Empty]

\* lines 83-92: the files of the tree, in traversal order, whose lower-cased
\* name ends in a spreadsheet suffix and whose name does not start with "~$"
ScanFilesOf(order) ==
    LET match(p) ==
            /\ \E suf \in Suffixes : EndsWith(Lower(Basename(p)), suf)
            /\ ~StartsWith(Basename(p), LockPrefix)
        hits == SelectSeq(order, match)
    IN  [i \in 1..Len(hits) |-> FullPath(hits[i])]

ScanFiles == ScanFilesOf(walk)

\* lines 109-112: the path relative to data_path, or the path itself when it
\* is not under data_path (relative_to raises ValueError)
GetRelativePath(file_path) ==
    IF StartsWith(file_path, Root \o Sep) /\ Len(file_path) > Len(Root \o Sep)
    THEN SubSeq(file_path, Len(Root \o Sep) + 1, Len(file_path))
    ELSE file_path

\* the file pd.read_excel opens for an absolute path
ContentAt(tree, file_path) == Get(tree, GetRelativePath(file_path), Corrupt)

\* lines 153-154: the key and the value of one row
RowKey(row) == IF row[1] # NaN THEN Strip(row[1]) ELSE Empty
RowValue(row) == IF row[2] # NaN THEN row[2] ELSE Empty

\* the loop with the last occurrence of a key winning
RECURSIVE ReadRowsLastWins(_, _, _)
ReadRowsLastWins(rows, i, st) ==
    IF i > Len(rows) THEN st
    ELSE LET key == RowKey(rows[i])
             value == RowValue(rows[i])
         IN  IF key # Empty
             THEN ReadRowsLastWins(rows, i + 1,
                      [data_dict |-> (key :> value) @@ st.data_dict,
                       key_order |-> IF key \in DOMAIN st.data_dict
                                     THEN st.key_order
                                     ELSE Append(st.key_order, key),
                       all_keys |-> st.all_keys \cup {key}])
             ELSE ReadRowsLastWins(rows, i + 1, st)

\* the loop with a key taken only when no file had it before
RECURSIVE ReadRowsGlobalDedup(_, _, _)
ReadRowsGlobalDedup(rows, i, st) ==
    IF i > Len(rows) THEN st
    ELSE LET key == RowKey(rows[i])
             value == RowValue(rows[i])
         IN  IF key # Empty /\ key \notin st.all_keys
             THEN ReadRowsGlobalDedup(rows, i + 1,
                      [data_dict |-> (key :> value) @@ st.data_dict,
                       key_order |-> Append(st.key_order, key),
                       all_keys |-> st.all_keys \cup {key}])
             ELSE ReadRowsGlobalDedup(rows, i + 1, st)

\* lines 152-161: the loop over the rows, from row i on.  st is
\* [data_dict, key_order, all_keys]
RECURSIVE ReadRows(_, _, _)
ReadRows(rows, i, st) ==
    IF i > Len(rows) THEN st
    ELSE LET key == RowKey(rows[i])
             value == RowValue(rows[i])
         IN  IF key # Empty /\ key \notin DOMAIN st.data_dict
             THEN ReadRows(rows, i + 1,
                      [data_dict |-> (key :> value) @@ st.data_dict,
                       key_order |-> Append(st.key_order, key),
                       all_keys |-> st.all_keys \cup {key}])
             ELSE ReadRows(rows, i + 1, st)

\* _read_excel letting the failure of pd.read_excel out
ReadExcelRaising(tree, keys, order, file_path) ==
    [data |-> EmptyDict, all_keys |-> keys, file_order |-> order,
     raised |-> ContentAt(tree, file_path).kind # "sheet"]

\* lines 134-169: _read_excel.  Returns the record with the engine's all_keys
\* and file_order after the call; a file pd.read_excel cannot read gives {}
\* and leaves both as they were
ReadExcel(tree, keys, order, file_path) ==
    LET relative_path == GetRelativePath(file_path)
        content == ContentAt(tree, file_path)
    IN  IF content.kind = "sheet"
        THEN LET st == ReadRows(content.rows, 1,
                           [data_dict |-> EmptyDict, key_order |-> <<>>,
                            all_keys |-> keys])
             IN  [data |-> st.data_dict,
                  all_keys |-> st.all_keys,
                  file_order |-> (relative_path :> st.key_order) @@ order,
                  raised |-> FALSE]
        ELSE [data |-> EmptyDict, all_keys |-> keys, file_order |-> order,
              raised |-> FALSE]

\* the store leaving out a file that gave an empty record
StoreRecordSkipEmpty(data, names, relative_path, record) ==
    IF record = EmptyDict THEN [data |-> data, names |-> names]
    ELSE [data |-> (relative_path :> record) @@ data,
          names |-> IF relative_path \in Range(names) THEN names
                    ELSE Append(names, relative_path)]

\* line 203: self.file_data[relative_path] = record.  A dict keeps a key it
\* already holds at its place; names is the order of the dict's keys
StoreRecord(data, names, relative_path, record) ==
    [data |-> (relative_path :> record) @@ data,
     names |-> IF relative_path \in Range(names) THEN names
               ELSE Append(names, relative_path)]

\* sorting without regard to case
RECURSIVE SortedIgnoreCase(_)
SortedIgnoreCase(S) ==
    IF S = {} THEN <<>>
    ELSE LET m == CHOOSE x \in S :
                    \A y \in S \ {x} : ~StrLess(Lower(y), Lower(x))
         IN  <<m>> \o SortedIgnoreCase(S \ {m})

\* line 210: sorted(self.all_keys)
RECURSIVE Sorted(_)
Sorted(S) ==
    IF S = {} THEN <<>>
    ELSE LET m == CHOOSE x \in S : \A y \in S \ {x} : StrLess(x, y)
         IN  <<m>> \o Sorted(S \ {m})

\* the row with a missing value under a key the file does not hold
BuildRowNull(relative_path, data, file_keys, sorted_keys) ==
    <<relative_path>> \o
    [i \in 1..Len(sorted_keys) |-> Get(data, sorted_keys[i], NaN)]

\* lines 221-233: one data row
BuildRow(relative_path, data, file_keys, sorted_keys) ==
    LET first_map == [k \in Range(file_keys) |-> Get(data, k, Empty)]
        value_map == [k \in Range(file_keys) \cup Range(sorted_keys) |->
                         IF k \in DOMAIN first_map THEN first_map[k]
                         ELSE Get(data, k, Empty)]
    IN  <<relative_path>> \o
        [i \in 1..Len(sorted_keys) |-> value_map[sorted_keys[i]]]

\* lines 210-234: the table, header row first
BuildRows(keys, data, names, order) ==
    LET sorted_keys == Sorted(keys)
        header_row == <<SourceFile>> \o sorted_keys
    IN  <<header_row>> \o
        [i \in 1..Len(names) |->
            BuildRow(names[i], data[names[i]], Get(order, names[i], <<>>),
                     sorted_keys)]

\* lines 200-203: the loop of consolidate over files, from file i on, on the
\* engine e = [all_keys, file_data, file_names, file_order]
RECURSIVE ReadAll(_, _, _, _)
ReadAll(tree, files, i, e) ==
    IF i > Len(files) THEN e
    ELSE LET r == ReadExcel(tree, e.all_keys, e.file_order, files[i])
             st == StoreRecord(e.file_data, e.file_names,
                               GetRelativePath(files[i]), r.data)
         IN  ReadAll(tree, files, i + 1,
                 [all_keys |-> r.all_keys, file_data |-> st.data,
                  file_names |-> st.names, file_order |-> r.file_order])

\* lines 200-234: the table a new engine builds when it processes files in
\* the order given
TableIn(tree, files) ==
    LET e == ReadAll(tree, files, 1,
                 [all_keys |-> {}, file_data |-> EmptyDict,
                  file_names |-> <<>>, file_order |-> EmptyDict])
    IN  BuildRows(e.all_keys, e.file_data, e.file_names, e.file_order)

\* lines 270-275 and 142-149: the sheet to_excel writes for the table, as
\* pd.read_excel reads it back: columns A and B, an empty cell read as NaN
\* (a sheet of one column has no column B for usecols: read_excel raises)
WrittenSheet(rows) ==
    LET cell(c) == IF c = Empty THEN NaN ELSE c
    IN  IF Len(rows[1]) < 2 THEN Corrupt
        ELSE Sheet([i \in 1..Len(rows) |->
                       <<cell(rows[i][1]), cell(rows[i][2])>>])

\* the location of the output inside the tree
OutputRel == DefaultName

\* lines 264-275: the tree once _save_excel has written the table
SaveExcel(tree, rows, target) ==
    IF target.in_root THEN (OutputRel :> WrittenSheet(rows)) @@ tree ELSE tree

\* os.walk's order once the output exists: a new entry of the root directory
\* turns up in the listing, here before or after all the others
WalkWith(order, target, pos) ==
    IF target.in_root /\ OutputRel \notin Range(order)
    THEN SubSeq(order, 1, pos) \o <<OutputRel>> \o
         SubSeq(order, pos + 1, Len(order))
    ELSE order

\* the exception raised again
ConsolidateReraise == [result |-> "none", escaped |-> TRUE]

\* lines 241-243: what consolidate does with an exception raised in its body
ConsolidateCatch == [result |-> "False", escaped |-> FALSE]

\* the summary counting keys as files
GetSummarySwapped(data, names, keys) ==
    [total_files |-> Cardinality(keys),
     total_keys |-> Cardinality(DOMAIN data),
     file_names |-> names]

\* lines 326-330: get_summary
GetSummaryOf(data, names, keys) ==
    [total_files |-> Cardinality(DOMAIN data),
     total_keys |-> Cardinality(keys),
     file_names |-> names]

NoSummary == [total_files |-> -1, total_keys |-> -1, file_names |-> <<>>]

----------------------------------------------------------------------------
(* Initial states: a root, the tree under it, and no run started.          *)

InRoot == [in_root |-> TRUE]
Elsewhere == [in_root |-> FALSE]

\* the trees: a.xlsx and s/B.XLSM each absent or with some content, beside a
\* lock file and a text file that are always there
Trees ==
    {[p \in present \cup {LockFile, TextFile} |->
        IF p = FileA THEN a ELSE IF p = FileB THEN b ELSE Other] :
        <<present, a, b>> \in
            {<<{}, Corrupt, Corrupt>>}
            \cup {<<{FileA}, a, Corrupt>> : a \in Contents}
            \cup {<<{FileA, FileB}, t[1], t[2]>> :
                      t \in Contents \X ShortContents}}

\* the orders os.walk may list a tree's spreadsheets in
WalksOf(tree) ==
    IF FileB \in DOMAIN tree
    THEN {<<LockFile, FileA, TextFile, FileB>>,
          <<LockFile, FileB, TextFile, FileA>>}
    ELSE IF FileA \in DOMAIN tree
    THEN {<<LockFile, FileA, TextFile>>}
    ELSE {<<LockFile, TextFile>>}

Init ==
    /\ flow \in {"script", "gui"}
    /\ root_kind \in {"dir", "file", "missing"}
                     \cup (IF flow = "gui" THEN {"unset"} ELSE {})
    /\ dir \in (IF root_kind = "dir" THEN Trees ELSE {EmptyDict})
    /\ walk \in (IF root_kind = "dir" THEN WalksOf(dir) ELSE {<<>>})
    /\ output_file \in {InRoot, Elsewhere}
    /\ all_keys = {}
    /\ file_data = EmptyDict
    /\ file_names = <<>>
    /\ file_order = EmptyDict
    /\ pc = "idle"
    /\ excel_files = <<>>
    /\ idx = 0
    /\ result = "none"
    /\ data_rows = <<>>
    /\ saved = "no"
    /\ escaped = FALSE
    /\ summary = NoSummary
    /\ btn = "normal"
    /\ run = 0
    /\ prev_rows = <<>>
    /\ finishing = 0

----------------------------------------------------------------------------
(* Operations.                                                             *)

\* the validation without the is_dir check
ValidPathExistsOnly == root_kind # "missing"

\* lines 52-56 and 66-69: __init__ with _validate_path.  The new engine has
\* empty accumulators; a root that is missing or no directory raises
ValidPath == root_kind = "dir"

NewEngine ==
    /\ all_keys' = {}
    /\ file_data' = EmptyDict
    /\ file_names' = <<>>
    /\ file_order' = EmptyDict

\* a run starts: the table of a run that returned True is kept for comparison
NewRun ==
    /\ run < MaxRuns
    /\ run' = run + 1
    /\ prev_rows' = IF result = "True" THEN data_rows ELSE <<>>
    /\ excel_files' = <<>>
    /\ idx' = 0
    /\ result' = "none"
    /\ data_rows' = <<>>
    /\ saved' = "no"
    /\ escaped' = FALSE
    /\ summary' = NoSummary
    /\ finishing' = finishing

\* test_consolidator.py line 20: the script builds its engine
TestConstruct ==
    /\ pc = "idle"
    /\ flow = "script"
    /\ NewRun
    /\ NewEngine
    /\ pc' = IF ValidPath THEN "constructed" ELSE "config_error"
    /\ UNCHANGED <<env_vars, flow, btn>>

\* gui.py lines 291-300: the button is disabled and the worker started
StartConsolidationThread ==
    /\ pc = "idle"
    /\ flow = "gui"
    /\ btn = "normal"
    /\ NewRun
    /\ btn' = "disabled"
    /\ pc' = "gui_start"
    /\ UNCHANGED <<env_vars, engine_vars, flow>>

\* gui.py line 334: the input folder or the output file entry is empty
MissingEntry == root_kind = "unset"

\* gui.py lines 330-343: the worker checks the entries, and with an empty one
\* it reports, enables the button and returns (no try block is entered yet);
\* else it builds its engine
GuiConstruct ==
    /\ pc = "gui_start"
    /\ IF MissingEntry
       THEN /\ pc' = "idle"
            /\ btn' = "normal"
            /\ UNCHANGED engine_vars
       ELSE /\ NewEngine
            /\ pc' = IF ValidPath THEN "gui_scan" ELSE "config_error"
            /\ btn' = btn
    /\ summary' = NoSummary
    /\ UNCHANGED <<env_vars, flow, excel_files, idx, result, data_rows, saved,
                   escaped, run, prev_rows, finishing>>

\* the constructor raised: the script ends with the traceback; the worker's
\* handler (gui.py lines 409-417) reports it and enables the button
ConfigError ==
    /\ pc = "config_error"
    /\ pc' = "idle"
    /\ btn' = "normal"
    /\ summary' = NoSummary
    /\ UNCHANGED <<env_vars, engine_vars, flow, excel_files, idx, result,
                   data_rows, saved, escaped, run, prev_rows, finishing>>

\* gui.py lines 352-354 and 384-386: the worker enables the button and then
\* returns from inside the try block, so its finally clause is still to run
EarlyReturn ==
    /\ pc' = "idle"
    /\ btn' = "normal"
    /\ finishing' = finishing + 1

\* gui.py lines 346-356: the worker scans; no file ends the run
GuiScan ==
    /\ pc = "gui_scan"
    /\ excel_files' = ScanFiles
    /\ idx' = 0
    /\ IF ScanFiles = <<>>
       THEN EarlyReturn
       ELSE pc' = "gui_reading" /\ UNCHANGED <<btn, finishing>>
    /\ summary' = NoSummary
    /\ UNCHANGED <<env_vars, engine_vars, flow, result, data_rows, saved,
                   escaped, run, prev_rows>>

\* one turn of a loop that reads excel_files[idx + 1] into file_data
\* (excel_consolidator.py lines 201-203, gui.py lines 360-372); an
\* exception out of _read_excel would leave the loop with nothing stored
NextRead == ReadExcel(dir, all_keys, file_order, excel_files[idx + 1])

ReadNext ==
    LET relative_path == GetRelativePath(excel_files[idx + 1])
        r == NextRead
        st == StoreRecord(file_data, file_names, relative_path, r.data)
    IN  /\ all_keys' = r.all_keys
        /\ file_order' = r.file_order
        /\ IF r.raised
           THEN UNCHANGED <<file_data, file_names, idx>>
           ELSE /\ file_data' = st.data
                /\ file_names' = st.names
                /\ idx' = idx + 1

\* gui.py lines 360-376: the worker reads one file
GuiRead ==
    /\ pc = "gui_reading"
    /\ idx < Len(excel_files)
    /\ ReadNext
    /\ IF NextRead.raised
       THEN pc' = "idle" /\ btn' = "normal"
       ELSE pc' = pc /\ btn' = btn
    /\ summary' = NoSummary
    /\ UNCHANGED <<env_vars, flow, excel_files, result, data_rows, saved,
                   escaped, run, prev_rows, finishing>>

\* gui.py lines 379-386: no key at all ends the run
GuiCheckKeys ==
    /\ pc = "gui_reading"
    /\ idx = Len(excel_files)
    /\ IF all_keys = {}
       THEN EarlyReturn
       ELSE pc' = "constructed" /\ UNCHANGED <<btn, finishing>>
    /\ summary' = NoSummary
    /\ UNCHANGED <<env_vars, engine_vars, flow, excel_files, idx, result,
                   data_rows, saved, escaped, run, prev_rows>>

\* lines 195-198: consolidate scans; no file returns False
ConsolidateScan ==
    /\ pc = "constructed"
    /\ excel_files' = ScanFiles
    /\ idx' = 0
    /\ IF ScanFiles = <<>>
       THEN pc' = "returned" /\ result' = "False"
       ELSE pc' = "reading" /\ result' = result
    /\ summary' = NoSummary
    /\ UNCHANGED <<env_vars, engine_vars, flow, data_rows, saved, escaped,
                   btn, run, prev_rows, finishing>>

\* a loop that exports the table it has after each file
ConsolidateReadThenExport ==
    /\ pc = "reading"
    /\ idx < Len(excel_files)
    /\ ReadNext
    /\ data_rows' = BuildRows(all_keys', file_data', file_names', file_order')
    /\ saved' = IF all_keys' = {} THEN saved ELSE "ok"
    /\ summary' = NoSummary
    /\ UNCHANGED <<env_vars, pc, flow, excel_files, result, escaped, btn, run,
                   prev_rows, finishing>>

\* lines 201-203: consolidate reads one file
ConsolidateRead ==
    /\ pc = "reading"
    /\ idx < Len(excel_files)
    /\ ReadNext
    /\ IF NextRead.raised
       THEN /\ pc' = "returned"
            /\ result' = ConsolidateCatch.result
            /\ escaped' = ConsolidateCatch.escaped
       ELSE UNCHANGED <<pc, result, escaped>>
    /\ summary' = NoSummary
    /\ UNCHANGED <<env_vars, flow, excel_files, data_rows, saved, btn, run,
                   prev_rows, finishing>>

\* the check left out
NoKeysUnchecked == FALSE

\* lines 205-207: every file is read and no key was registered
NoKeys == all_keys = {}

\* lines 205-243: after the loop consolidate returns False without a table
\* when there is no key; else it builds the table and hands it to
\* _save_excel, which writes it or raises (lines 311-313), and an exception
\* goes to the handler of lines 241-243
ConsolidateSave ==
    /\ pc = "reading"
    /\ idx = Len(excel_files)
    /\ pc' = "returned"
    /\ summary' = NoSummary
    /\ IF NoKeys
       THEN /\ result' = "False"
            /\ UNCHANGED <<dir, walk, data_rows, saved, escaped>>
       ELSE /\ data_rows' = BuildRows(all_keys, file_data, file_names,
                                      file_order)
            /\ \E ok \in BOOLEAN, pos \in {0, Len(walk)} :
                IF ok
                THEN /\ saved' = "ok"
                     /\ dir' = SaveExcel(dir, data_rows', output_file)
                     /\ walk' = WalkWith(walk, output_file, pos)
                     /\ result' = "True"
                     /\ escaped' = escaped
                ELSE /\ saved' = "failed"
                     /\ result' = ConsolidateCatch.result
                     /\ escaped' = ConsolidateCatch.escaped
                     /\ UNCHANGED <<dir, walk>>
    /\ UNCHANGED <<root_kind, output_file, engine_vars, flow, excel_files,
                   idx, btn, run, prev_rows, finishing>>

\* lines 326-330: get_summary, on a new engine or after consolidate
GetSummary ==
    /\ pc \in {"constructed", "returned"}
    /\ summary = NoSummary
    /\ summary' = GetSummaryOf(file_data, file_names, all_keys)
    /\ UNCHANGED <<env_vars, engine_vars, pc, flow, excel_files, idx, result,
                   data_rows, saved, escaped, btn, run, prev_rows, finishing>>

\* test_consolidator.py lines 23-26: the script prints the outcome
TestFinish ==
    /\ pc = "returned"
    /\ flow = "script"
    /\ pc' = "idle"
    /\ summary' = NoSummary
    /\ UNCHANGED <<env_vars, engine_vars, flow, excel_files, idx, result,
                   data_rows, saved, escaped, btn, run, prev_rows, finishing>>

\* gui.py lines 393-417: the worker reports the outcome, with the summary
\* (line 396) after a success, and enables the button
GuiFinish ==
    /\ pc = "returned"
    /\ flow = "gui"
    /\ result = "True" => summary # NoSummary
    /\ pc' = "idle"
    /\ btn' = "normal"
    /\ summary' = NoSummary
    /\ UNCHANGED <<env_vars, engine_vars, flow, excel_files, idx, result,
                   data_rows, saved, escaped, run, prev_rows, finishing>>

\* gui.py lines 416-417: the finally clause of a worker that returned early
\* enables the button once more, whatever the window is doing by then
GuiFinally ==
    /\ finishing > 0
    /\ finishing' = finishing - 1
    /\ btn' = "normal"
    /\ UNCHANGED <<env_vars, engine_vars, pc, flow, excel_files, idx, result,
                   data_rows, saved, escaped, summary, run, prev_rows>>

Next ==
    \/ TestConstruct
    \/ StartConsolidationThread
    \/ GuiConstruct
    \/ ConfigError
    \/ GuiScan
    \/ GuiRead
    \/ GuiCheckKeys
    \/ ConsolidateScan
    \/ ConsolidateRead
    \/ ConsolidateSave
    \/ GetSummary
    \/ TestFinish
    \/ GuiFinish
    \/ GuiFinally

Spec == Init /\ [][Next]_vars

\* The input files belong to the user, not to the program: between the
\* worker's own pass over them (gui.py lines 360-372) and the pass of
\* consolidate (gui.py line 391, excel_consolidator.py lines 201-203) a
\* spreadsheet that was read can become unreadable (opened and locked by
\* Excel, truncated by a copy in progress); pd.read_excel then raises and
\* _read_excel returns {} (lines 167-169)
FileBecomesUnreadable ==
    /\ pc = "constructed"
    /\ flow = "gui"
    /\ \E rel \in DOMAIN dir :
          /\ dir[rel].kind = "sheet"
          /\ rel \in DOMAIN file_data
          /\ dir' = [dir EXCEPT ![rel] = Corrupt]
    /\ UNCHANGED <<root_kind, walk, output_file, engine_vars, call_vars>>

NextEnv ==
    \/ Next
    \/ FileBecomesUnreadable

\* the program beside a user who touches the input files during a run
SpecEnv == Init /\ [][NextEnv]_vars

----------------------------------------------------------------------------
(* Properties.                                                             *)

\* consolidate returned True in this run
Succeeded == pc \in {"returned", "idle"} /\ result = "True"

\* the step in which consolidate builds its table and hands it to _save_excel
BuildsTable == pc = "reading" /\ pc' = "returned" /\ data_rows' # <<>>

\* the keys of a file: the stripped, non-empty column A cells of its sheet
KeysIn(content) ==
    IF content.kind = "sheet"
    THEN {Strip(content.rows[i][1]) :
            i \in {j \in 1..Len(content.rows) : content.rows[j][1] # NaN}}
         \ {Empty}
    ELSE {}

\* the discovered file (a position of excel_files) as it is in the tree
FileAt(j) == dir[GetRelativePath(excel_files[j])]

\* the row of the first occurrence of key k in a sheet
FirstRow(rows, k) ==
    CHOOSE i \in 1..Len(rows) :
        /\ RowKey(rows[i]) = k
        /\ \A j \in 1..(i - 1) : RowKey(rows[j]) # k

\* C1: after a successful consolidate the header row is "Source File"
\* followed by the keys of the successfully extracted files, each once, in
\* ascending order by code point, and by nothing else.
C1_HeaderIsSortedKeyUnion ==
    [][(BuildsTable /\ result' = "True") =>
        LET header == data_rows'[1]
        IN  /\ header[1] = SourceFile
            /\ \A i \in 2..Len(header), j \in 2..Len(header) :
                 i < j => StrLess(header[i], header[j])
            /\ {header[i] : i \in 2..Len(header)} =
                 UNION {KeysIn(FileAt(j)) : j \in 1..Len(excel_files)}]_vars

\* C1 witness: a table over two files whose header holds "B" before "a"
C1_Witness ==
    /\ Succeeded
    /\ Len(excel_files) = 2
    /\ Len(data_rows[1]) = 3
    /\ data_rows[1][2] = <<66>>
    /\ data_rows[1][3] = <<97>>

\* C2: the record _read_excel produces for a file holds, for every key of
\* the file, the value of the key's first row; the file's key list holds the
\* keys once each in the order of their first rows; a row with an empty
\* stripped key adds nothing; and the output cell of the file and key is
\* that first value.
C2_FirstOccurrenceWins ==
    [][/\ (idx' = idx + 1 /\ FileAt(idx').kind = "sheet") =>
            LET rel == GetRelativePath(excel_files[idx'])
                rows == FileAt(idx').rows
                rec == file_data'[rel]
                order == file_order'[rel]
            IN  /\ DOMAIN rec = KeysIn(FileAt(idx'))
                /\ \A k \in DOMAIN rec :
                     rec[k] = RowValue(rows[FirstRow(rows, k)])
                /\ Range(order) = DOMAIN rec
                /\ \A a \in 1..Len(order), b \in 1..Len(order) :
                     a < b => FirstRow(rows, order[a]) < FirstRow(rows, order[b])
       /\ BuildsTable =>
            \A j \in 1..Len(excel_files) :
                FileAt(j).kind = "sheet" =>
                \A c \in 2..Len(data_rows'[1]) :
                    LET k == data_rows'[1][c]
                        rows == FileAt(j).rows
                    IN  k \in KeysIn(FileAt(j)) =>
                        data_rows'[j + 1][c] = RowValue(rows[FirstRow(rows, k)])
      ]_vars

\* C2 witness: a.xlsx holds " a " with "1" and then "a" with "2", and its
\* row of the table shows "1"
C2_Witness ==
    /\ Succeeded
    /\ dir[FileA].kind = "sheet"
    /\ Len(dir[FileA].rows) = 2
    /\ dir[FileA].rows[1] = << <<32, 97, 32>>, <<49>> >>
    /\ dir[FileA].rows[2] = << <<97>>, <<50>> >>
    /\ \E j \in 2..Len(data_rows) :
         data_rows[j][1] = FileA /\ data_rows[j][2] = <<49>>

\* C3: in the table every data row has one cell per header column; a key
\* cell is the value of the file's record when the record has the key and
\* the empty string (never a missing value) when it has not.
C3_CellsAreValueOrEmpty ==
    data_rows # <<>> =>
        \A j \in 2..Len(data_rows) :
            LET row == data_rows[j]
                rec == file_data[row[1]]
            IN  /\ Len(row) = 1 + Cardinality(all_keys)
                /\ Len(row) = Len(data_rows[1])
                /\ \A c \in 2..Len(row) :
                     /\ row[c] # NaN
                     /\ row[c] = IF data_rows[1][c] \in DOMAIN rec
                                 THEN rec[data_rows[1][c]] ELSE Empty

\* C3 witness: a row with a value under one key and an empty cell under a
\* key its file does not hold
C3_Witness ==
    /\ Succeeded
    /\ \E j \in 2..Len(data_rows) : \E c, d \in 2..Len(data_rows[1]) :
         /\ data_rows[1][c] \notin DOMAIN file_data[data_rows[j][1]]
         /\ data_rows[j][c] = Empty
         /\ data_rows[1][d] \in DOMAIN file_data[data_rows[j][1]]
         /\ data_rows[j][d] # Empty

\* C4: the table has one data row per discovered file, named by the file's
\* path relative to the root; a file whose extraction failed has its row,
\* with every key cell empty.
C4_OneRowPerDiscoveredFile ==
    data_rows # <<>> =>
        /\ Len(data_rows) - 1 = Len(excel_files)
        /\ \A i \in 2..Len(data_rows), j \in 2..Len(data_rows) :
             i # j => data_rows[i][1] # data_rows[j][1]
        /\ {FullPath(data_rows[j][1]) : j \in 2..Len(data_rows)} =
             Range(excel_files)
        /\ \A j \in 2..Len(data_rows) :
             dir[data_rows[j][1]].kind = "corrupt" =>
                \A c \in 2..Len(data_rows[j]) : data_rows[j][c] = Empty

\* C4 witness: a successful table of two rows, one of them of a file that
\* could not be read
C4_Witness ==
    /\ Succeeded
    /\ Len(excel_files) = 2
    /\ Len(data_rows) = 3
    /\ \E j \in 2..3 : dir[data_rows[j][1]].kind = "corrupt"

\* C5: _save_excel is called only when files were discovered and a key was
\* registered; with no file, or with files and no key, consolidate returns
\* False, calls no _save_excel and builds no table.
C5_SaveOnlyWithFilesAndKeys ==
    /\ saved # "no" => excel_files # <<>> /\ all_keys # {}
    /\ (pc = "returned" /\ (excel_files = <<>> \/ all_keys = {})) =>
          result = "False" /\ saved = "no" /\ data_rows = <<>>

\* C5 witness: files were discovered, none held a key, consolidate returned
\* False
C5_Witness ==
    /\ pc = "returned"
    /\ excel_files # <<>>
    /\ all_keys = {}
    /\ result = "False"
    /\ saved = "no"

C7_ConsolidateNeverRaises ==
    /\ escaped = FALSE
    /\ result = "True" => saved = "ok"
    /\ (pc = "returned" /\ saved = "failed") => result = "False"
    /\ pc = "returned" => result \in {"True", "False"}
    /\ pc = "config_error" =>
          ~ValidPath /\ excel_files = <<>> /\ result = "none"

\* C7 witness: _save_excel failed and consolidate returned False
C7_Witness ==
    /\ pc = "returned"
    /\ saved = "failed"
    /\ result = "False"
    /\ escaped = FALSE

\* C8 (as claimed): two runs in succession with the same root and the same
\* output location, both returning True, build the same table, wherever the
\* output is.
C8_Idempotent ==
    (Succeeded /\ prev_rows # <<>>) => data_rows = prev_rows

\* C8, output outside the root only: the two tables are the same
C8_IdempotentOutsideRoot ==
    (Succeeded /\ prev_rows # <<>> /\ ~output_file.in_root) =>
        data_rows = prev_rows

\* the orders in which a list of files can be processed
Orders(files) ==
    {p \in [1..Len(files) -> Range(files)] : Range(p) = Range(files)}

\* C9 (as claimed): whatever the order in which the discovered files are
\* processed, consolidate builds the same table.
C9_SameTableInAnyOrder ==
    [][BuildsTable =>
        \A p \in Orders(excel_files) : TableIn(dir, p) = data_rows']_vars

\* C9 (amended): whatever the order in which the discovered files are
\* processed, the header row is the same and the data rows are the same
\* rows; they come out in the order the files were processed.
C9_SameRowsInAnyOrder ==
    [][BuildsTable =>
        /\ TableIn(dir, excel_files) = data_rows'
        /\ \A p \in Orders(excel_files) :
             LET t == TableIn(dir, p)
             IN  /\ t[1] = data_rows'[1]
                 /\ Len(t) = Len(data_rows')
                 /\ Range(Tail(t)) = Range(Tail(data_rows'))
                 /\ \A j \in 1..Len(p) : t[j + 1][1] = GetRelativePath(p[j])
      ]_vars

\* C9 witness: a table over two files, which two orders can produce
C9_Witness ==
    /\ Succeeded
    /\ Len(excel_files) = 2
    /\ Len(data_rows) = 3
    /\ Tail(data_rows[2]) # Tail(data_rows[3])

\* C10: get_summary changes nothing of the engine and returns the number of
\* stored records, the number of keys and the stored paths: 0, 0 and no
\* path on an engine that read no file, and the numbers of data rows and of
\* key columns after a successful consolidate.
C10_SummaryIsPureRead ==
    [][summary' # NoSummary =>
        /\ UNCHANGED <<engine_vars, env_vars, data_rows, result>>
        /\ summary'.total_files = Cardinality(DOMAIN file_data)
        /\ summary'.total_files = Len(file_names)
        /\ summary'.total_keys = Cardinality(all_keys)
        /\ summary'.file_names = file_names
        /\ Range(summary'.file_names) = DOMAIN file_data
        /\ file_names = <<>> =>
             summary' = [total_files |-> 0, total_keys |-> 0,
                         file_names |-> <<>>]
        /\ result = "True" =>
             /\ summary'.total_files = Len(data_rows) - 1
             /\ summary'.total_keys = Len(data_rows[1]) - 1
      ]_vars

\* C10 witness: the summary of a successful run over two files
C10_Witness ==
    /\ summary # NoSummary
    /\ result = "True"
    /\ summary.total_files = 2
    /\ summary.total_keys >= 1

\* C11: constructing an engine on a root that is missing or is no directory
\* raises at construction, with nothing scanned or read; an engine with such
\* a root never scans; on a directory the constructor does not raise.
C11_InvalidRootFailsAtConstruction ==
    [][/\ (root_kind \in {"file", "missing"} /\ pc' # pc
           /\ pc \in {"idle", "gui_start"} /\ pc' \notin {"idle", "gui_start"})
          => pc' = "config_error"
       /\ root_kind' \in {"file", "missing"} =>
            /\ pc' \in {"idle", "gui_start", "config_error"}
            /\ excel_files' = <<>>
            /\ all_keys' = {} /\ file_data' = EmptyDict
            /\ result' = "none" /\ saved' = "no" /\ data_rows' = <<>>
       /\ pc' = "config_error" => root_kind' \in {"file", "missing"}
      ]_vars

\* C11 witness: the constructor raised on a root that is a file
C11_Witness ==
    /\ pc = "config_error"
    /\ root_kind = "file"
    /\ excel_files = <<>>

\* C12: within one consolidate call _save_excel is invoked at most once, and
\* only when every discovered file has been read into file_data and all_keys
\* is final: the table it gets is the one built from the complete
\* accumulators, no table exists before the last read, and once the export
\* has begun nothing is read in that call.
C12_ExportOnceAfterAllReads ==
    [][/\ (saved' # saved /\ saved' # "no") =>
            /\ saved = "no"
            /\ pc = "reading"
            /\ excel_files # <<>>
            /\ idx = Len(excel_files)
            /\ \A j \in 1..Len(excel_files) :
                  GetRelativePath(excel_files[j]) \in DOMAIN file_data
            /\ UNCHANGED <<engine_vars, excel_files, idx>>
            /\ data_rows' = BuildRows(all_keys, file_data, file_names,
                                      file_order)
       /\ (data_rows' # data_rows /\ data_rows' # <<>>) =>
            (saved = "no" /\ saved' # "no")
       /\ (pc = "reading" /\ idx < Len(excel_files)) =>
            (saved = "no" /\ data_rows = <<>>)
       /\ saved # "no" =>
            (UNCHANGED <<engine_vars, excel_files, idx, saved>> \/ run' # run)
      ]_vars

\* C12 witness: two files were read, then the table was exported
C12_Witness ==
    /\ pc = "returned"
    /\ saved = "ok"
    /\ Len(excel_files) = 2
    /\ idx = 2
    /\ Len(data_rows) = 3

\* C13: the window never has two runs in progress: from the click that
\* starts a worker until that worker has ended, the start button is disabled.
\* Violated: a worker that returns early enables the button before its
\* finally clause has run, and that clause enables the button again while the
\* worker of the next run is at work.
C13_ButtonDisabledWhileWorkerRuns ==
    (flow = "gui" /\ pc # "idle") => btn = "disabled"

\* C14: on one engine, after any extractions, failed or not, all_keys is the
\* union of the key sets of the records stored in file_data.  Violated in the
\* window's flow, which extracts every file twice on the same engine: the
\* second extraction of a file that has become unreadable replaces its record
\* by {} and leaves its keys in all_keys.
C14_KeyUniverseIsUnionOfRecords ==
    all_keys = UNION {DOMAIN file_data[rel] : rel \in DOMAIN file_data}

\* C15: in every table handed to _save_excel the labels of the header row
\* are pairwise distinct.  Violated: a key cell that holds "Source File"
\* becomes a key column with the label of the first column.
C15_HeaderLabelsDistinct ==
    data_rows # <<>> =>
        \A i, j \in 1..Len(data_rows[1]) :
            i # j => data_rows[1][i] # data_rows[1][j]

====
